---- MODULE Spec2Model ----
(***************************************************************************)
(* Model of db/types/base.py: the catalog of database type identities      *)
(* (PostgresType, MathesarCustomType), their quirk classification, the     *)
(* binding between an identity and the engine's native type registry       *)
(* (engine.dialect.ischema_names), and the availability resolver that      *)
(* asks the connected database which type names are installed.             *)
(*                                                                         *)
(* Python values are modelled as follows.                                  *)
(*   - an Enum member is the record [enum, name, value];                   *)
(*   - Python's None is the record None;                                   *)
(*   - an SQLAlchemy type class is [kind |-> "class", cls, opts |-> {}]    *)
(*     and an instance of it [kind |-> "instance", cls, opts];             *)
(*   - a dict (ischema_names) is the sequence of its <<key, value>> items  *)
(*     in iteration order, keys pairwise distinct;                         *)
(*   - an Optional collection argument is None or [ids |-> set];           *)
(*   - a call's result is [outcome |-> "return" | "raise", value, events], *)
(*     events being the I/O the call performed, in order.                  *)
(***************************************************************************)
EXTENDS Naturals, Sequences, FiniteSets, TLC

VARIABLES
    ischema_names,      \* engine.dialect.ischema_names of the engine in use
    pg_type_names,      \* type names the connected database's catalog lists
    open_connections,   \* connections acquired by this module and not yet released
    ret                 \* the last call made to this module and what it produced

vars == <<ischema_names, pg_type_names, open_connections, ret>>

None == [none |-> TRUE]

(***************************************************************************)
(* The two catalogs.                                                       *)
(***************************************************************************)

PostgresTypeMembers ==
    { <<"_ARRAY", "_array">>, <<"BIGINT", "bigint">>,
      <<"BIT_VARYING", "bit varying">>, <<"BIT", "bit">>,
      <<"BOOLEAN", "boolean">>, <<"BYTEA", "bytea">>,
      <<"CHAR", "\"char\"">>, <<"CHARACTER_VARYING", "character varying">>,
      <<"CHARACTER", "character">>, <<"CIDR", "cidr">>, <<"DATE", "date">>,
      <<"DATERANGE", "daterange">>,
      <<"DOUBLE_PRECISION", "double precision">>, <<"FLOAT", "float">>,
      <<"HSTORE", "hstore">>, <<"INET", "inet">>,
      <<"INT4RANGE", "int4range">>, <<"INT8RANGE", "int8range">>,
      <<"INTEGER", "integer">>, <<"INTERVAL", "interval">>,
      <<"JSON", "json">>, <<"JSONB", "jsonb">>, <<"MACADDR", "macaddr">>,
      <<"MONEY", "money">>, <<"NAME", "name">>, <<"NUMERIC", "numeric">>,
      <<"NUMRANGE", "numrange">>, <<"OID", "oid">>, <<"REAL", "real">>,
      <<"REGCLASS", "regclass">>, <<"SMALLINT", "smallint">>,
      <<"TEXT", "text">>, <<"TIME", "time">>,
      <<"TIME_WITH_TIME_ZONE", "time with time zone">>,
      <<"TIME_WITHOUT_TIME_ZONE", "time without time zone">>,
      <<"TIMESTAMP", "timestamp">>,
      <<"TIMESTAMP_WITH_TIME_ZONE", "timestamp with time zone">>,
      <<"TIMESTAMP_WITHOUT_TIME_ZONE", "timestamp without time zone">>,
      <<"TSRANGE", "tsrange">>, <<"TSTZRANGE", "tstzrange">>,
      <<"TSVECTOR", "tsvector">>, <<"UUID", "uuid">> }

PostgresType ==
    { [enum |-> "PostgresType", name |-> m[1], value |-> m[2]] :
        m \in PostgresTypeMembers }

\* constants.MATHESAR_PREFIX lives in db/constants.py.
MATHESAR_PREFIX == "mathesar_"

SCHEMA == MATHESAR_PREFIX \o "types"

\* preparer.quote_schema(SCHEMA): SCHEMA is a lower-case, unreserved
\* identifier, which the PostgreSQL preparer leaves unquoted.
_ma_type_qualifier_prefix == SCHEMA

get_qualified_name(unqualified_name) ==
    _ma_type_qualifier_prefix \o "." \o unqualified_name

MathesarCustomTypeMembers ==
    { <<"EMAIL", "email">>, <<"MATHESAR_MONEY", "mathesar_money">>,
      <<"MULTICURRENCY_MONEY", "multicurrency_money">>, <<"URI", "uri">> }

\* __new__ stores the qualified id as the member's value.
MathesarCustomType ==
    { [enum |-> "MathesarCustomType", name |-> m[1],
       value |-> get_qualified_name(m[2])] : m \in MathesarCustomTypeMembers }

PG(n) == CHOOSE t \in PostgresType : t.name = n

_non_canonical_alias_db_types == { PG("FLOAT"), PG("TIME"), PG("TIMESTAMP") }

\* frozenset.union() dropped: only the literal set is kept.
_inconsistent_db_types_without_aliases ==
    { PG("NAME"), PG("CHAR"), PG("BIT_VARYING") }

_inconsistent_db_types ==
    _non_canonical_alias_db_types \cup { PG("NAME"), PG("CHAR"), PG("BIT_VARYING") }

_sa_only_db_types == { PG("_ARRAY") }

_optional_db_types == { PG("HSTORE") }

_known_vanilla_db_types == PostgresType

_known_custom_db_types == MathesarCustomType

known_db_types == _known_vanilla_db_types \cup _known_custom_db_types

(***************************************************************************)
(* DatabaseType: id and the quirk predicates.                              *)
(***************************************************************************)

id(self) == self.value

\* bool(x) of a Python collection: empty collections are falsy.
Truthy(collection) == collection # {}

is_alias(self) == self \in _non_canonical_alias_db_types

is_sa_only(self) == self \in _sa_only_db_types

is_optional(self) == self \in _optional_db_types

is_inconsistent(self) == self \in _inconsistent_db_types

is_ignored(self) == self \in _inconsistent_db_types

\* the negation dropped.
is_reflection_supported_same_as_inconsistent(self) == is_inconsistent(self)

is_reflection_supported(self) == ~ is_inconsistent(self)

\* `not self.is_inconsistent and not _sa_only_db_types`: the second operand
\* is the truth value of the frozenset itself, not a membership test.
is_application_supported(self) ==
    ~ is_inconsistent(self) /\ ~ Truthy(_sa_only_db_types)

QuirkPredicates ==
    { "is_alias", "is_sa_only", "is_optional", "is_inconsistent", "is_ignored",
      "is_reflection_supported", "is_application_supported" }

Answer(outcome, value, events) ==
    [outcome |-> outcome, value |-> value, events |-> events]

Call(op, args, answer) ==
    [op |-> op, args |-> args, outcome |-> answer.outcome,
     value |-> answer.value, events |-> answer.events]

Idle == Call("idle", <<>>, Answer("return", None, <<>>))

(***************************************************************************)
(* The quirk classifier: one action per predicate, applied to any known    *)
(* identity.                                                               *)
(***************************************************************************)

InitQuirk ==
    /\ ischema_names = <<>>
    /\ pg_type_names = {}
    /\ open_connections = 0
    /\ ret = Idle

env == <<ischema_names, pg_type_names, open_connections>>

IsAlias ==
    \E t \in known_db_types :
        /\ ret' = Call("is_alias", <<t>>, Answer("return", is_alias(t), <<>>))
        /\ UNCHANGED env

IsSaOnly ==
    \E t \in known_db_types :
        /\ ret' = Call("is_sa_only", <<t>>, Answer("return", is_sa_only(t), <<>>))
        /\ UNCHANGED env

IsOptional ==
    \E t \in known_db_types :
        /\ ret' = Call("is_optional", <<t>>, Answer("return", is_optional(t), <<>>))
        /\ UNCHANGED env

IsInconsistent ==
    \E t \in known_db_types :
        /\ ret' = Call("is_inconsistent", <<t>>, Answer("return", is_inconsistent(t), <<>>))
        /\ UNCHANGED env

IsIgnored ==
    \E t \in known_db_types :
        /\ ret' = Call("is_ignored", <<t>>, Answer("return", is_ignored(t), <<>>))
        /\ UNCHANGED env

IsReflectionSupported ==
    \E t \in known_db_types :
        /\ ret' = Call("is_reflection_supported", <<t>>, Answer("return", is_reflection_supported(t), <<>>))
        /\ UNCHANGED env

IsApplicationSupported ==
    \E t \in known_db_types :
        /\ ret' = Call("is_application_supported", <<t>>, Answer("return", is_application_supported(t), <<>>))
        /\ UNCHANGED env

NextQuirk ==
    \/ IsAlias
    \/ IsSaOnly
    \/ IsOptional
    \/ IsInconsistent
    \/ IsIgnored
    \/ IsReflectionSupported
    \/ IsApplicationSupported

SpecQuirk == InitQuirk /\ [][NextQuirk]_vars

\* The identity the last call was made on.
Subject == ret.args[1]

BuiltInCall == ret.op \in QuirkPredicates /\ Subject \in PostgresType

CustomCall == ret.op \in QuirkPredicates /\ Subject \in MathesarCustomType

\* C2: for every built-in identity t, is_application_supported(t) equals
\* (not is_inconsistent(t)) and (not is_sa_only(t)), is_ignored(t) equals
\* is_inconsistent(t), and is_reflection_supported(t) equals
\* not is_inconsistent(t).
C2_ApplicationSupportedAsSpecified ==
    BuiltInCall =>
        /\ ret.op = "is_application_supported" =>
              ret.value = (~ is_inconsistent(Subject) /\ ~ is_sa_only(Subject))
        /\ ret.op = "is_ignored" => ret.value = is_inconsistent(Subject)
        /\ ret.op = "is_reflection_supported" =>
              ret.value = ~ is_inconsistent(Subject)

\* C8 as stated: every one of the seven quirk predicates answers false for
\* every custom identity.
C8_AllSevenFalseForCustom ==
    CustomCall => (ret.outcome = "return" /\ ret.value = FALSE)

\* C8 as amended: for every custom identity is_alias, is_sa_only, is_optional,
\* is_inconsistent, is_ignored and is_application_supported answer false and
\* is_reflection_supported answers true, none of them raising.
C8_CustomQuirks ==
    CustomCall =>
        /\ ret.outcome = "return"
        /\ ret.value = (ret.op = "is_reflection_supported")

C8_Witness ==
    /\ CustomCall
    /\ ret.op = "is_reflection_supported"
    /\ Subject.name = "EMAIL"
    /\ ret.value = TRUE

NonAliasInconsistent ==
    { t \in _known_vanilla_db_types : is_inconsistent(t) /\ ~ is_alias(t) }

MaxRegistryLen == 2

SAClassNames == { "TIMESTAMP", "INTEGER", "EMAIL" }

\* Keyword arguments each class's constructor accepts.
SAInitParams(cls) ==
    CASE cls = "TIMESTAMP" -> { "timezone", "precision" }
      [] cls = "INTEGER" -> {}
      [] cls = "EMAIL" -> {}

OptionKeys == { "precision", "scale" }

SAClass(cls) == [kind |-> "class", cls |-> cls, opts |-> {}]

SAInstance(cls, opts) == [kind |-> "instance", cls |-> cls, opts |-> opts]

SAClasses == { SAClass(c) : c \in SAClassNames }

SAInstances == { SAInstance(c, {}) : c \in SAClassNames }

RegistryKeys ==
    { "timestamp", "timestamp with time zone", "timestamp without time zone",
      get_qualified_name("email"), "int4", "" }

Registries ==
    { r \in UNION { [1..n -> RegistryKeys \X SAClasses] : n \in 0..MaxRegistryLen } :
        \A i, j \in DOMAIN r : r[i][1] = r[j][1] => i = j }

\* inspect.isclass
isclass(object) == object.kind = "class"

\* dict.get(key)
DictGet(dict, key) ==
    IF \E i \in DOMAIN dict : dict[i][1] = key
    THEN dict[CHOOSE i \in DOMAIN dict : dict[i][1] = key][2]
    ELSE None

get_sa_class(self, engine) ==
    IF ~ is_ignored(self) THEN DictGet(engine, id(self)) ELSE None

\* sa_class(**type_options): TypeError on a keyword the constructor lacks.
Construct(sa_class, type_options) ==
    IF type_options \subseteq SAInitParams(sa_class.cls)
    THEN Answer("return", SAInstance(sa_class.cls, type_options), <<>>)
    ELSE Answer("raise", "TypeError", <<>>)

\* instance.compile(dialect=dialect): the SQL text of the instance.
Compile(instance) == [sql |-> instance.cls, options |-> instance.opts]

\* A TypeError on construction answered by a zero-argument construction.
get_sa_instance_compiled_with_fallback(self, engine, type_options) ==
    LET sa_class == get_sa_class(self, engine) IN
    IF sa_class # None
    THEN LET instance == Construct(sa_class, type_options) IN
         IF instance.outcome = "raise"
         THEN Answer("return", Compile(Construct(sa_class, {}).value), <<>>)
         ELSE Answer("return", Compile(instance.value), <<>>)
    ELSE Answer("return", None, <<>>)

get_sa_instance_compiled(self, engine, type_options) ==
    LET sa_class == get_sa_class(self, engine) IN
    IF sa_class # None
    THEN LET instance == Construct(sa_class, type_options) IN
         IF instance.outcome = "raise"
         THEN instance
         ELSE Answer("return", Compile(instance.value), <<>>)
    ELSE Answer("return", None, <<>>)

\* PostgresType(db_type_id), then MathesarCustomType(db_type_id): lookup of
\* an Enum member by value, ValueError when there is none.
get_db_type_enum_from_id(db_type_id) ==
    IF \E t \in PostgresType : t.value = db_type_id
    THEN CHOOSE t \in PostgresType : t.value = db_type_id
    ELSE IF \E t \in MathesarCustomType : t.value = db_type_id
         THEN CHOOSE t \in MathesarCustomType : t.value = db_type_id
         ELSE None

\* The for loop over ischema_names.items(), from item i on.
RECURSIVE ScanItems(_, _, _)
ScanItems(sa_type_class1, items, i) ==
    IF i > Len(items)
    THEN None
    ELSE IF sa_type_class1 = items[i][2]
         THEN [db_type_id |-> items[i][1]]
         ELSE ScanItems(sa_type_class1, items, i + 1)

_get_sa_type_class_id_from_ischema_names(sa_type_class1, engine) ==
    Answer("return", ScanItems(sa_type_class1, engine, 1), <<"ischema_names.items">>)

_sa_type_class_to_db_type_id(sa_type_class, engine) ==
    _get_sa_type_class_id_from_ischema_names(sa_type_class, engine)

NotAClass == "Programming error: sa_type parameter must be a class, not an instance."

NoMapping == "We don't know how to map this type class to a DatabaseType Enum."

\* The final raise replaced by falling off the end of the function.
get_db_type_enum_from_class_returning_none(sa_type, engine) ==
    IF ~ isclass(sa_type)
    THEN Answer("raise", NotAClass, <<>>)
    ELSE LET found == _sa_type_class_to_db_type_id(sa_type, engine)
             db_type == get_db_type_enum_from_id(found.value.db_type_id)
         IN  IF found.value # None /\ found.value.db_type_id # "" /\ db_type # None
             THEN Answer("return", db_type, found.events)
             ELSE Answer("return", None, found.events)

\* `if db_type_id:` is false for None and for the empty string;
\* `if db_type:` is false for None only (Enum members are truthy).
get_db_type_enum_from_class(sa_type, engine) ==
    IF ~ isclass(sa_type)
    THEN Answer("raise", NotAClass, <<>>)
    ELSE LET found == _sa_type_class_to_db_type_id(sa_type, engine)
             db_type == get_db_type_enum_from_id(found.value.db_type_id)
         IN  IF found.value # None /\ found.value.db_type_id # "" /\ db_type # None
             THEN Answer("return", db_type, found.events)
             ELSE Answer("raise", NoMapping, found.events)

\* sa_class.compile(dialect=...) on a class lacks `self` and raises
\* TypeError, which is answered by compiling a zero-argument instance.
_compile_sa_class(sa_class, engine) ==
    IF isclass(sa_class)
    THEN Answer("return", Compile(Construct(sa_class, {}).value), <<>>)
    ELSE Answer("return", Compile(sa_class), <<>>)

InitBinding ==
    /\ ischema_names \in Registries
    /\ pg_type_names = {}
    /\ open_connections = 0
    /\ ret = Idle

GetSaClass ==
    /\ ret.op = "idle"
    /\ \E t \in known_db_types :
        /\ ret' = Call("get_sa_class", <<t>>,
                       Answer("return", get_sa_class(t, ischema_names), <<>>))
        /\ UNCHANGED env

GetSaInstanceCompiled ==
    /\ ret.op = "idle"
    /\ \E t \in known_db_types, type_options \in SUBSET OptionKeys :
        /\ ret' = Call("get_sa_instance_compiled", <<t, type_options>>,
                       get_sa_instance_compiled(t, ischema_names, type_options))
        /\ UNCHANGED env

GetDbTypeEnumFromId ==
    /\ ret.op = "idle"
    /\ \E db_type_id \in RegistryKeys \cup { "numeric" } :
        /\ ret' = Call("get_db_type_enum_from_id", <<db_type_id>>,
                       Answer("return", get_db_type_enum_from_id(db_type_id), <<>>))
        /\ UNCHANGED env

GetDbTypeEnumFromClass ==
    /\ ret.op = "idle"
    /\ \E sa_type \in SAClasses \cup SAInstances :
        /\ ret' = Call("get_db_type_enum_from_class", <<sa_type>>,
                       get_db_type_enum_from_class(sa_type, ischema_names))
        /\ UNCHANGED env

CompileSaClass ==
    /\ ret.op = "idle"
    /\ \E sa_class \in SAClasses \cup SAInstances :
        /\ ret' = Call("_compile_sa_class", <<sa_class>>,
                       _compile_sa_class(sa_class, ischema_names))
        /\ UNCHANGED env

\* The caller takes the result; the module is ready for the next call.
Return ==
    /\ ret.op # "idle"
    /\ ret' = Idle
    /\ UNCHANGED env

NextBinding ==
    \/ GetSaClass
    \/ GetSaInstanceCompiled
    \/ GetDbTypeEnumFromId
    \/ GetDbTypeEnumFromClass
    \/ CompileSaClass
    \/ Return

SpecBinding == InitBinding /\ [][NextBinding]_vars

\* Registry positions whose value is the class sa_type.
MatchingItems(sa_type) ==
    { i \in DOMAIN ischema_names : ischema_names[i][2] = sa_type }

\* The identifier of the first registry item whose value is sa_type.
MatchedKey(sa_type) ==
    ischema_names[CHOOSE i \in MatchingItems(sa_type) :
                      \A j \in MatchingItems(sa_type) : i <= j][1]

KnownIds == { id(t) : t \in known_db_types }

\* C1: round trip.  Whenever t.get_sa_class(engine) returns a class c that is
\* not None, get_db_type_enum_from_class(c, engine) returns t itself.
C1_RoundTrip ==
    (ret.op = "get_sa_class" /\ ret.value # None) =>
        LET back == get_db_type_enum_from_class(ret.value, ischema_names)
        IN  back.outcome = "return" /\ back.value = Subject

\* C3: get_db_type_enum_from_class never returns None or a non-identity: it
\* raises at once, before any registry scan, for an instance; it raises when
\* no registry value equals sa_type; it raises when the matched identifier
\* is not the id of a known identity; in every other case it returns the
\* known identity whose id is the matched registry key.
C3_FromClassRaisesOrReturnsIdentity ==
    ret.op = "get_db_type_enum_from_class" =>
        LET sa_type == ret.args[1] IN
        /\ ret.outcome \in { "return", "raise" }
        /\ ret.outcome = "return" => ret.value \in known_db_types
        /\ CASE ~ isclass(sa_type) ->
                   /\ ret.outcome = "raise"
                   /\ ret.value = NotAClass
                   /\ ret.events = <<>>
             [] isclass(sa_type) /\ MatchingItems(sa_type) = {} ->
                   ret.outcome = "raise" /\ ret.value = NoMapping
             [] /\ isclass(sa_type)
                /\ MatchingItems(sa_type) # {}
                /\ MatchedKey(sa_type) \notin KnownIds ->
                   ret.outcome = "raise" /\ ret.value = NoMapping
             [] OTHER ->
                   /\ ret.outcome = "return"
                   /\ id(ret.value) = MatchedKey(sa_type)

C3_Witness ==
    /\ ret.op = "get_db_type_enum_from_class"
    /\ ret.outcome = "return"
    /\ ret.value = PG("TIMESTAMP_WITH_TIME_ZONE")
    /\ Cardinality(MatchingItems(ret.args[1])) = 2

\* C7 as stated: None without a native class; otherwise construction with
\* the options and, when that fails with TypeError, the compiled text of a
\* zero-argument instance instead of the error.
C7_FallsBackToZeroArguments ==
    ret.op = "get_sa_instance_compiled" =>
        LET sa_class == get_sa_class(Subject, ischema_names)
            type_options == ret.args[2]
        IN  IF sa_class = None
            THEN ret.outcome = "return" /\ ret.value = None
            ELSE /\ ret.outcome = "return"
                 /\ ret.value =
                      IF type_options \subseteq SAInitParams(sa_class.cls)
                      THEN [sql |-> sa_class.cls, options |-> type_options]
                      ELSE [sql |-> sa_class.cls, options |-> {}]

\* C7 as amended: None without a native class; otherwise the native class is
\* constructed with the given options and the compiled text of that
\* instance is returned; a TypeError raised by the construction reaches the
\* caller, and no zero-argument construction is attempted.
C7_TypeErrorPropagates ==
    ret.op = "get_sa_instance_compiled" =>
        LET sa_class == get_sa_class(Subject, ischema_names)
            type_options == ret.args[2]
        IN  IF sa_class = None
            THEN ret.outcome = "return" /\ ret.value = None
            ELSE IF type_options \subseteq SAInitParams(sa_class.cls)
                 THEN /\ ret.outcome = "return"
                      /\ ret.value = [sql |-> sa_class.cls, options |-> type_options]
                 ELSE ret.outcome = "raise" /\ ret.value = "TypeError"

C7_Witness ==
    /\ ret.op = "get_sa_instance_compiled"
    /\ get_sa_class(Subject, ischema_names) = SAClass("TIMESTAMP")
    /\ ret.args[2] = { "precision", "scale" }
    /\ ret.outcome = "raise"

(***************************************************************************)
(* Availability resolver.  The database is the environment: the set of     *)
(* type names its catalog lists (what the introspection query yields),     *)
(* and, per call, whether connecting or executing the query fails.         *)
(***************************************************************************)

MaxInstalled == 3

TypeNames ==
    { "numeric", "name", "hstore", "_array", get_qualified_name("email"), "xml" }

Catalogs == { S \in SUBSET TypeNames : Cardinality(S) <= MaxInstalled }

Faults == { "none", "connect", "execute" }

\* The engine as the availability functions see it.
Engine(type_names, fault) == [type_names |-> type_names, fault |-> fault]

\* The connection left open when the query raises.
_get_type_ids_on_database_leaking_on_failure(engine) ==
    CASE engine.fault = "connect" -> Answer("raise", "OperationalError", <<>>)
      [] engine.fault = "execute" ->
            Answer("raise", "DBAPIError", <<"connect", "execute">>)
      [] OTHER ->
            Answer("return", [ids |-> engine.type_names],
                   <<"connect", "execute", "close">>)

\* `with engine.connect() as connection:` closes the connection when the
\* block is left, by return or by exception; connection.execute() is called
\* once and its rows collected into a frozenset.
_get_type_ids_on_database(engine) ==
    CASE engine.fault = "connect" -> Answer("raise", "OperationalError", <<>>)
      [] engine.fault = "execute" ->
            Answer("raise", "DBAPIError", <<"connect", "execute", "close">>)
      [] OTHER ->
            Answer("return", [ids |-> engine.type_names],
                   <<"connect", "execute", "close">>)

\* `if not type_ids_on_database:` in place of `is None`: an empty snapshot
\* is fetched again.
is_available_refetching_empty_snapshot(self, engine, type_ids_on_database) ==
    LET fetched ==
            IF type_ids_on_database = None \/ type_ids_on_database.ids = {}
            THEN _get_type_ids_on_database(engine)
            ELSE Answer("return", type_ids_on_database, <<>>)
    IN  IF fetched.outcome = "raise"
        THEN fetched
        ELSE Answer("return", id(self) \in fetched.value.ids, fetched.events)

is_available(self, engine, type_ids_on_database) ==
    LET fetched ==
            IF type_ids_on_database = None
            THEN _get_type_ids_on_database(engine)
            ELSE Answer("return", type_ids_on_database, <<>>)
    IN  IF fetched.outcome = "raise"
        THEN fetched
        ELSE Answer("return", id(self) \in fetched.value.ids, fetched.events)

RECURSIVE SetToSeq(_)
SetToSeq(S) ==
    IF S = {} THEN <<>>
    ELSE LET x == CHOOSE y \in S : TRUE IN <<x>> \o SetToSeq(S \ {x})

\* Iteration order of the frozenset known_db_types: some fixed order.
KnownOrder == SetToSeq(known_db_types)

\* The generator expression of get_available_known_db_types from position i
\* on: kept holds the identities kept so far, events the I/O done so far.
RECURSIVE KeepAvailable(_, _, _, _, _)
KeepAvailable(engine, type_ids_on_database, i, kept, events) ==
    IF i > Len(KnownOrder)
    THEN Answer("return", kept, events)
    ELSE LET db_type == KnownOrder[i]
             available == is_available(db_type, engine, type_ids_on_database)
         IN  IF available.outcome = "raise"
             THEN Answer("raise", available.value, events \o available.events)
             ELSE KeepAvailable(engine, type_ids_on_database, i + 1,
                                IF available.value THEN Append(kept, db_type) ELSE kept,
                                events \o available.events)

\* The snapshot fetched but not handed to is_available.
get_available_known_db_types_without_snapshot(engine) ==
    LET fetched == _get_type_ids_on_database(engine) IN
    IF fetched.outcome = "raise"
    THEN fetched
    ELSE KeepAvailable(engine, None, 1, <<>>, fetched.events)

\* Identities that are ignored left out of the result.
get_available_known_db_types_skipping_ignored(engine) ==
    LET fetched == _get_type_ids_on_database(engine) IN
    IF fetched.outcome = "raise"
    THEN fetched
    ELSE LET all == KeepAvailable(engine, fetched.value, 1, <<>>, fetched.events)
         IN  Answer(all.outcome, SelectSeq(all.value, LAMBDA t : ~ is_ignored(t)),
                    all.events)

get_available_known_db_types(engine) ==
    LET fetched == _get_type_ids_on_database(engine) IN
    IF fetched.outcome = "raise"
    THEN fetched
    ELSE KeepAvailable(engine, fetched.value, 1, <<>>, fetched.events)

Count(events, e) == Cardinality({ i \in DOMAIN events : events[i] = e })

\* Connections a call acquired and did not release.
Leaked(events) == Count(events, "connect") - Count(events, "close")

InitAvailability ==
    /\ ischema_names = <<>>
    /\ pg_type_names \in Catalogs
    /\ open_connections = 0
    /\ ret = Idle

GetTypeIdsOnDatabase ==
    /\ ret.op = "idle"
    /\ \E fault \in Faults :
        LET answer == _get_type_ids_on_database(Engine(pg_type_names, fault)) IN
        /\ ret' = Call("_get_type_ids_on_database", <<fault>>, answer)
        /\ open_connections' = open_connections + Leaked(answer.events)
        /\ UNCHANGED <<ischema_names, pg_type_names>>

IsAvailable ==
    /\ ret.op = "idle"
    /\ \E t \in known_db_types, fault \in Faults,
          type_ids_on_database \in { None } \cup { [ids |-> S] : S \in Catalogs } :
        LET answer == is_available(t, Engine(pg_type_names, fault), type_ids_on_database)
        IN
        /\ ret' = Call("is_available", <<t, fault, type_ids_on_database>>, answer)
        /\ open_connections' = open_connections + Leaked(answer.events)
        /\ UNCHANGED <<ischema_names, pg_type_names>>

GetAvailableKnownDbTypes ==
    /\ ret.op = "idle"
    /\ \E fault \in Faults :
        LET answer == get_available_known_db_types(Engine(pg_type_names, fault)) IN
        /\ ret' = Call("get_available_known_db_types", <<fault>>, answer)
        /\ open_connections' = open_connections + Leaked(answer.events)
        /\ UNCHANGED <<ischema_names, pg_type_names>>

NextAvailability ==
    \/ GetTypeIdsOnDatabase
    \/ IsAvailable
    \/ GetAvailableKnownDbTypes
    \/ Return

SpecAvailability == InitAvailability /\ [][NextAvailability]_vars

\* C4: one call of get_available_known_db_types issues exactly one
\* introspection query against the database it connected to, whatever the
\* size of the catalog and whatever the query yields (an empty result and a
\* failure included): the per-identity is_available checks issue none.  (A
\* call that cannot connect issues no query at all.)
C4_ExactlyOneQuery ==
    ret.op = "get_available_known_db_types" =>
        IF ret.args[1] = "connect"
        THEN ret.events = <<>>
        ELSE /\ Count(ret.events, "execute") = 1
             /\ Count(ret.events, "connect") = 1

C4_Witness ==
    /\ ret.op = "get_available_known_db_types"
    /\ ret.outcome = "return"
    /\ pg_type_names = {}
    /\ ret.value = <<>>
    /\ Count(ret.events, "execute") = 1

\* The identities a returned tuple holds.
Range(tuple) == { tuple[i] : i \in DOMAIN tuple }

\* C5: for any set S of installed type names, get_available_known_db_types
\* returns exactly the known identities whose id is in S, each once, with no
\* classification filtering.
C5_ExactlyTheInstalledKnownTypes ==
    (ret.op = "get_available_known_db_types" /\ ret.outcome = "return") =>
        /\ Range(ret.value) = { t \in known_db_types : id(t) \in pg_type_names }
        /\ \A i, j \in DOMAIN ret.value : ret.value[i] = ret.value[j] => i = j

C5_Witness ==
    /\ ret.op = "get_available_known_db_types"
    /\ ret.outcome = "return"
    /\ pg_type_names = { "name", "_array", "xml" }
    /\ Range(ret.value) = { PG("NAME"), PG("_ARRAY") }

\* C6: on a database whose installed types do not change, is_available with
\* a pre-fetched snapshot of the installed type ids returns the boolean that
\* is_available without a snapshot returns, and the call with a snapshot
\* performs no query, also when the snapshot is empty.
C6_SnapshotAgreesWithFreshQuery ==
    (ret.op = "is_available" /\ ret.args[3] # None) =>
        /\ ret.events = <<>>
        /\ ret.outcome = "return"
        /\ ret.args[3].ids = pg_type_names =>
              LET fresh == is_available(Subject, Engine(pg_type_names, "none"), None)
              IN  /\ fresh.outcome = "return"
                  /\ Count(fresh.events, "execute") = 1
                  /\ ret.value = fresh.value

C6_Witness ==
    /\ ret.op = "is_available"
    /\ ret.args[3] = [ids |-> {}]
    /\ pg_type_names = {}
    /\ ret.value = FALSE
    /\ ret.events = <<>>

\* Every connect of a call is followed by a close.
Released(events) ==
    \A i \in DOMAIN events :
        events[i] = "connect" => \E j \in DOMAIN events : j > i /\ events[j] = "close"

\* C10: every call of _get_type_ids_on_database that acquires a connection
\* releases it before it returns or raises, on every exit path (rows, empty
\* result, query failure); after any sequence of calls no connection of
\* this module is open; a query failure reaches the caller, the query being
\* neither retried nor its error swallowed.
C10_ConnectionAlwaysReleased ==
    /\ open_connections = 0
    /\ ret.op = "_get_type_ids_on_database" =>
          /\ Released(ret.events)
          /\ Leaked(ret.events) = 0
          /\ Count(ret.events, "execute") <= 1
          /\ ret.args[1] = "execute" =>
                ret.outcome = "raise" /\ ret.value = "DBAPIError"
          /\ ret.args[1] = "none" =>
                ret.outcome = "return" /\ ret.value = [ids |-> pg_type_names]

C10_Witness ==
    /\ ret.op = "_get_type_ids_on_database"
    /\ ret.args[1] = "execute"
    /\ ret.outcome = "raise"
    /\ ret.events = <<"connect", "execute", "close">>
    /\ open_connections = 0

====
